---- MODULE Spec2Model ----
(***************************************************************************)
(* Model of rulengine.py: the Node AST, RuleEngine.tokenize, build_ast,    *)
(* create_rule, combine_rules, evaluate_rule, save_rule and get_rule, and  *)
(* the driving script at the end of the file.                              *)
(*                                                                         *)
(* A Python str is a sequence of one-character strings, so that the        *)
(* character tests of the tokenizer and the parser are computed.           *)
(* A Python value is a record [t, n, s]: t is "int", "bool" or "str", n    *)
(* the number (a bool is the int 0 or 1, as in Python), s the characters.  *)
(***************************************************************************)
EXTENDS Integers, Sequences, FiniteSets, TLC

VARIABLES input, rules, data, tokens, ast, err, result, rules_db, saved_rule, pc

vars == <<input, rules, data, tokens, ast, err, result, rules_db, saved_rule, pc>>

(* ------------------------------ characters ----------------------------- *)

\* str.split() with no argument splits on runs of these.
Whitespace == {" ", "\t", "\n", "\r"}

\* The ASCII characters str.isdigit() accepts.
Digits == <<"0", "1", "2", "3", "4", "5", "6", "7", "8", "9">>

\* Printable ASCII from code point 32 on, in code point order; the double
\* quote, the backslash and the backtick, which no input here holds, are
\* named in their places.
Ascii ==
  <<" ", "!", "dquote", "#", "$", "%", "&", "'", "(", ")", "*", "+", ",", "-", ".", "/",
    "0", "1", "2", "3", "4", "5", "6", "7", "8", "9", ":", ";", "<", "=", ">", "?",
    "@", "A", "B", "C", "D", "E", "F", "G", "H", "I", "J", "K", "L", "M", "N", "O",
    "P", "Q", "R", "S", "T", "U", "V", "W", "X", "Y", "Z", "[", "backslash", "]", "^", "_",
    "backtick", "a", "b", "c", "d", "e", "f", "g", "h", "i", "j", "k", "l", "m", "n", "o",
    "p", "q", "r", "s", "t", "u", "v", "w", "x", "y", "z", "{", "|", "}", "~">>

\* The code point of a character (Python compares strings by code point).
Ord(c) ==
  IF c = "\t" THEN 9
  ELSE IF c = "\n" THEN 10
  ELSE IF c = "\r" THEN 13
  ELSE 31 + (CHOOSE i \in 1..Len(Ascii) : Ascii[i] = c)

IsDigitChar(c) == \E i \in 1..Len(Digits) : Digits[i] = c

IsAlphaChar(c) == (Ord(c) >= 65 /\ Ord(c) <= 90) \/ (Ord(c) >= 97 /\ Ord(c) <= 122)

\* str.isdigit(): at least one character and all of them digits.
isdigit(token) == token # <<>> /\ \A i \in 1..Len(token) : IsDigitChar(token[i])

\* str.isalpha(): at least one character and all of them letters.
isalpha(token) == token # <<>> /\ \A i \in 1..Len(token) : IsAlphaChar(token[i])

startswith(token, c) == token # <<>> /\ token[1] = c

endswith(token, c) == token # <<>> /\ token[Len(token)] = c

\* str.strip(c): drops every leading and every trailing c.
RECURSIVE lstrip(_, _)
lstrip(token, c) ==
  IF token # <<>> /\ Head(token) = c THEN lstrip(Tail(token), c) ELSE token

RECURSIVE rstrip(_, _)
rstrip(token, c) ==
  IF token # <<>> /\ token[Len(token)] = c
  THEN rstrip(SubSeq(token, 1, Len(token) - 1), c)
  ELSE token

strip(token, c) == rstrip(lstrip(token, c), c)

DigitValue(c) == (CHOOSE i \in 1..Len(Digits) : Digits[i] = c) - 1

\* int(token) for a token of digits.
RECURSIVE int(_)
int(token) ==
  IF token = <<>> THEN 0
  ELSE 10 * int(SubSeq(token, 1, Len(token) - 1)) + DigitValue(token[Len(token)])

\* str.replace(old, new) for a one-character old: every character of
\* s[lo..hi] that is old becomes new, the others stay (by halves, so that a
\* long string nests only a few calls).
RECURSIVE ReplaceIn(_, _, _, _, _)
ReplaceIn(s, lo, hi, old, new) ==
  IF lo > hi THEN <<>>
  ELSE IF lo = hi THEN (IF s[lo] = old THEN new ELSE <<s[lo]>>)
  ELSE LET mid == (lo + hi) \div 2
       IN ReplaceIn(s, lo, mid, old, new) \o ReplaceIn(s, mid + 1, hi, old, new)

replace(s, old, new) == ReplaceIn(s, 1, Len(s), old, new)

\* str.split(): the maximal runs of non-whitespace characters, in order.
\* A run starts where a non-whitespace character has none before it.
RunStarts(s) ==
  { i \in 1..Len(s) : s[i] \notin Whitespace /\ (i = 1 \/ s[i - 1] \in Whitespace) }

RunEnd(s, i) ==
  CHOOSE j \in i..Len(s) :
    /\ \A k \in i..j : s[k] \notin Whitespace
    /\ (j = Len(s) \/ s[j + 1] \in Whitespace)

split(s) ==
  LET starts == RunStarts(s)
      NthStart(n) == CHOOSE i \in starts : Cardinality({ j \in starts : j < i }) = n - 1
  IN [n \in 1..Cardinality(starts) |-> SubSeq(s, NthStart(n), RunEnd(s, NthStart(n)))]

(* -------------------------------- values ------------------------------- *)

IntVal(n) == [t |-> "int", n |-> n, s |-> <<>>]

StrVal(s) == [t |-> "str", n |-> 0, s |-> s]

BoolVal(b) == [t |-> "bool", n |-> (IF b THEN 1 ELSE 0), s |-> <<>>]

\* isinstance(v, int): bool is a subclass of int.
IsNumber(v) == v.t \in {"int", "bool"}

(* --------------------------------- Node -------------------------------- *)

\* None of Python, where a Node is expected.
None == [type |-> "none"]

Node(node_type, left, right, value) ==
  [type |-> node_type, left |-> left, right |-> right, value |-> value]

Operand(value) == Node("operand", None, None, value)

(* -------------------------------- errors ------------------------------- *)

NoError == "none"

InvalidToken == "ValueError: Invalid token"

UnknownOperator == "ValueError: Unknown operator"

IndexError == "IndexError: pop from empty list"

TypeError == "TypeError"

(* ------------------------------- tokenize ------------------------------ *)

\* tokenize with a slip: only '(' is padded.
tokenize_close_not_padded(rule_string) ==
  split(replace(rule_string, "(", <<" ", "(", " ">>))

tokenize(rule_string) ==
  split(replace(replace(rule_string, "(", <<" ", "(", " ">>), ")", <<" ", ")", " ">>))

(* ------------------------------- build_ast ----------------------------- *)

\* What a call of build_ast leaves: the node it returns, the queue as it
\* left it, and the exception it raised, if any.
Returned(node, queue) == [node |-> node, tokens |-> queue, err |-> NoError]

Raised(e, queue) == [node |-> None, tokens |-> queue, err |-> e]

\* token_operand with a slip: a quoted token keeps its quotes.
token_operand_keeps_quotes(token, queue) ==
  IF isdigit(token) THEN Returned(Operand(IntVal(int(token))), queue)
  ELSE IF startswith(token, "'") /\ endswith(token, "'")
       THEN Returned(Operand(StrVal(token)), queue)
  ELSE IF isalpha(token) THEN Returned(Operand(StrVal(token)), queue)
  ELSE Raised(InvalidToken, queue)

\* The branches of build_ast for a token that is not '('.
token_operand(token, queue) ==
  IF isdigit(token) THEN Returned(Operand(IntVal(int(token))), queue)
  ELSE IF startswith(token, "'") /\ endswith(token, "'")
       THEN Returned(Operand(StrVal(strip(token, "'"))), queue)
  ELSE IF isalpha(token) THEN Returned(Operand(StrVal(token)), queue)
  ELSE Raised(InvalidToken, queue)

\* close_group with a slip: the group takes the rest of the queue.
close_group_takes_all(left_node, operator_token, right) ==
  IF right.tokens = <<>> THEN Raised(IndexError, right.tokens)
  ELSE Returned(Node("operator", left_node, right.node, StrVal(operator_token)), <<>>)

\* The end of the '(' branch: pop the closing token, whatever it is, and
\* return the operator node.
close_group(left_node, operator_token, right) ==
  IF right.tokens = <<>> THEN Raised(IndexError, right.tokens)
  ELSE Returned(Node("operator", left_node, right.node, StrVal(operator_token)),
                Tail(right.tokens))

RECURSIVE build_ast(_)
build_ast(queue) ==
  IF queue = <<>> THEN Returned(None, queue)
  ELSE LET token == Head(queue)
           rest == Tail(queue)
       IN IF token = <<"(">>
          THEN LET left == build_ast(rest)
               IN IF left.err # NoError THEN left
                  ELSE IF left.tokens = <<>> THEN Raised(IndexError, left.tokens)
                  ELSE LET operator_token == Head(left.tokens)
                           right == build_ast(Tail(left.tokens))
                       IN IF right.err # NoError THEN right
                          ELSE close_group(left.node, operator_token, right)
          ELSE token_operand(token, rest)

create_rule(rule_string) == build_ast(tokenize(rule_string))

(* ----------------------------- combine_rules --------------------------- *)

\* combine_step with a slip: the new rule becomes the left child.
combine_step_swapped(combined_ast, rule_ast) ==
  Node("operator", rule_ast, combined_ast, StrVal(<<"A", "N", "D">>))

\* The body of the loop of combine_rules.
combine_step(combined_ast, rule_ast) ==
  Node("operator", combined_ast, rule_ast, StrVal(<<"A", "N", "D">>))

\* The loop of combine_rules from rule i on; the first rule that does not
\* parse ends the call with its exception.
RECURSIVE combine_loop(_, _, _)
combine_loop(combined_ast, rule_strings, i) ==
  IF i > Len(rule_strings) THEN Returned(combined_ast, <<>>)
  ELSE LET rule == create_rule(rule_strings[i])
       IN IF rule.err # NoError THEN Raised(rule.err, rule.tokens)
          ELSE combine_loop(combine_step(combined_ast, rule.node), rule_strings, i + 1)

combine_rules(rule_strings) ==
  IF rule_strings = <<>> THEN Returned(None, <<>>)
  ELSE LET first == create_rule(rule_strings[1])
       IN IF first.err # NoError THEN Raised(first.err, first.tokens)
          ELSE combine_loop(first.node, rule_strings, 2)

(* ----------------------------- evaluate_rule --------------------------- *)

\* The keys of the class's OPERATORS table.
OPERATORS == {<<"A", "N", "D">>, <<"O", "R">>, <<">">>, <<"<">>, <<"=">>}

\* What a call of evaluate_rule leaves: the value it returns or the
\* exception it raised.
NoValue == [t |-> "none", n |-> 0, s |-> <<>>]

Value(v) == [val |-> v, err |-> NoError]

Failed(e) == [val |-> NoValue, err |-> e]

\* Python's & and | on ints of any sign (two's complement of unbounded width).
RECURSIVE BitAnd(_, _)
BitAnd(a, b) ==
  IF a = 0 \/ b = 0 THEN 0
  ELSE IF a = -1 THEN b
  ELSE IF b = -1 THEN a
  ELSE 2 * BitAnd(a \div 2, b \div 2) + (a % 2) * (b % 2)

RECURSIVE BitOr(_, _)
BitOr(a, b) ==
  IF a = 0 THEN b
  ELSE IF b = 0 THEN a
  ELSE IF a = -1 \/ b = -1 THEN -1
  ELSE 2 * BitOr(a \div 2, b \div 2) + (IF a % 2 = 1 \/ b % 2 = 1 THEN 1 ELSE 0)

\* Python's < on two strs: by code point, a proper prefix first.
RECURSIVE StrLess(_, _)
StrLess(a, b) ==
  IF b = <<>> THEN FALSE
  ELSE IF a = <<>> THEN TRUE
  ELSE IF Head(a) = Head(b) THEN StrLess(Tail(a), Tail(b))
  ELSE Ord(Head(a)) < Ord(Head(b))

\* operator.and_: bool & bool is a bool, int & int an int, a str operand a
\* TypeError.
and_(l, r) ==
  IF l.t = "bool" /\ r.t = "bool" THEN Value(BoolVal(l.n = 1 /\ r.n = 1))
  ELSE IF IsNumber(l) /\ IsNumber(r) THEN Value(IntVal(BitAnd(l.n, r.n)))
  ELSE Failed(TypeError)

\* operator.or_
or_(l, r) ==
  IF l.t = "bool" /\ r.t = "bool" THEN Value(BoolVal(l.n = 1 \/ r.n = 1))
  ELSE IF IsNumber(l) /\ IsNumber(r) THEN Value(IntVal(BitOr(l.n, r.n)))
  ELSE Failed(TypeError)

\* operator.gt with a slip: >= for >.
gt_or_equal(l, r) ==
  IF IsNumber(l) /\ IsNumber(r) THEN Value(BoolVal(l.n >= r.n))
  ELSE IF l.t = "str" /\ r.t = "str" THEN Value(BoolVal(~StrLess(l.s, r.s)))
  ELSE Failed(TypeError)

\* operator.gt: numbers by value, strs by code point, a str against a number
\* a TypeError.
gt(l, r) ==
  IF IsNumber(l) /\ IsNumber(r) THEN Value(BoolVal(l.n > r.n))
  ELSE IF l.t = "str" /\ r.t = "str" THEN Value(BoolVal(StrLess(r.s, l.s)))
  ELSE Failed(TypeError)

\* operator.lt
lt(l, r) ==
  IF IsNumber(l) /\ IsNumber(r) THEN Value(BoolVal(l.n < r.n))
  ELSE IF l.t = "str" /\ r.t = "str" THEN Value(BoolVal(StrLess(l.s, r.s)))
  ELSE Failed(TypeError)

\* operator.eq: True == 1, and a str never equals a number.
eq(l, r) ==
  IF IsNumber(l) /\ IsNumber(r) THEN Value(BoolVal(l.n = r.n))
  ELSE IF l.t = "str" /\ r.t = "str" THEN Value(BoolVal(l.s = r.s))
  ELSE Value(BoolVal(FALSE))

\* OPERATORS.get(value): whether the table has the symbol.
operator_func_found(value) == value.t = "str" /\ value.s \in OPERATORS

\* apply_operator with a slip: a symbol the table lacks yields False.
apply_operator_unknown_is_false(value, l, r) ==
  IF ~operator_func_found(value) THEN Value(BoolVal(FALSE))
  ELSE IF value.s = <<"A", "N", "D">> THEN and_(l, r)
  ELSE IF value.s = <<"O", "R">> THEN or_(l, r)
  ELSE IF value.s = <<">">> THEN gt(l, r)
  ELSE IF value.s = <<"<">> THEN lt(l, r)
  ELSE eq(l, r)

\* The end of evaluate_rule for an operator node: look the symbol up and
\* apply the function to the two results, or raise.
apply_operator(value, l, r) ==
  IF ~operator_func_found(value) THEN Failed(UnknownOperator)
  ELSE IF value.s = <<"A", "N", "D">> THEN and_(l, r)
  ELSE IF value.s = <<"O", "R">> THEN or_(l, r)
  ELSE IF value.s = <<">">> THEN gt(l, r)
  ELSE IF value.s = <<"<">> THEN lt(l, r)
  ELSE eq(l, r)

\* operand_value with a slip: a str that is no key of the context is a
\* lookup failure.
operand_value_strict(value, context) ==
  IF value.t = "str"
  THEN (IF value.s \in DOMAIN context THEN Value(context[value.s]) ELSE Failed("KeyError"))
  ELSE Value(value)

\* The operand branch of evaluate_rule.
operand_value(value, context) ==
  IF value.t = "str" /\ value.s \in DOMAIN context
  THEN Value(context[value.s])
  ELSE Value(value)

RECURSIVE evaluate_rule(_, _)
evaluate_rule(node, context) ==
  IF node = None THEN Value(BoolVal(FALSE))
  ELSE IF node.type = "operand" THEN operand_value(node.value, context)
  ELSE LET left_result == evaluate_rule(node.left, context)
       IN IF left_result.err # NoError THEN left_result
          ELSE LET right_result == evaluate_rule(node.right, context)
               IN IF right_result.err # NoError THEN right_result
                  ELSE apply_operator(node.value, left_result.val, right_result.val)

(* ------------------------- save_rule and get_rule ---------------------- *)

\* rules_db[rule_id] = {'rule_string': ..., 'ast': ...}
save_rule(db, rule_id, rule_string, node) ==
  [k \in (DOMAIN db) \cup {rule_id} |->
     IF k = rule_id THEN [rule_string |-> rule_string, ast |-> node] ELSE db[k]]

\* rules_db.get(rule_id): None for an absent key.
get_rule(db, rule_id) == IF rule_id \in DOMAIN db THEN db[rule_id] ELSE None

(* ------------------------------ the inputs ----------------------------- *)

age == <<"a", "g", "e">>

department == <<"d", "e", "p", "a", "r", "t", "m", "e", "n", "t">>

salary == <<"s", "a", "l", "a", "r", "y">>

experience == <<"e", "x", "p", "e", "r", "i", "e", "n", "c", "e">>

Sales == <<"S", "a", "l", "e", "s">>

foo == <<"f", "o", "o">>

bar == <<"b", "a", "r">>

first_name == <<"f", "i", "r", "s", "t", "_", "n", "a", "m", "e">>

AND == <<"A", "N", "D">>

OR == <<"O", "R">>

XOR == <<"X", "O", "R">>

\* The two rules of the example usage.
rule1_string ==
  <<"(", "(", "a", "g", "e", " ", ">", " ", "3", "0", " ", "A", "N", "D", " ", "d", "e",
    "p", "a", "r", "t", "m", "e", "n", "t", " ", "=", " ", "'", "S", "a", "l", "e", "s",
    "'", ")", " ", "O", "R", " ", "(", "a", "g", "e", " ", "<", " ", "2", "5", " ", "A",
    "N", "D", " ", "d", "e", "p", "a", "r", "t", "m", "e", "n", "t", " ", "=", " ", "'",
    "M", "a", "r", "k", "e", "t", "i", "n", "g", "'", ")", ")", " ", "A", "N", "D", " ",
    "(", "s", "a", "l", "a", "r", "y", " ", ">", " ", "5", "0", "0", "0", "0", " ", "O",
    "R", " ", "e", "x", "p", "e", "r", "i", "e", "n", "c", "e", " ", ">", " ", "5",
    ")">>

rule2_string ==
  <<"(", "(", "a", "g", "e", " ", ">", " ", "3", "0", " ", "A", "N", "D", " ", "d", "e",
    "p", "a", "r", "t", "m", "e", "n", "t", " ", "=", " ", "'", "M", "a", "r", "k", "e",
    "t", "i", "n", "g", "'", ")", ")", " ", "A", "N", "D", " ", "(", "s", "a", "l", "a",
    "r", "y", " ", ">", " ", "2", "0", "0", "0", "0", " ", "O", "R", " ", "e", "x", "p",
    "e", "r", "i", "e", "n", "c", "e", " ", ">", " ", "5", ")">>

\* "(age > 30)", "(age>30)" and "(salary > 50000)"
age_gt_30 == <<"(", "a", "g", "e", " ", ">", " ", "3", "0", ")">>

age_gt_30_dense == <<"(", "a", "g", "e", ">", "3", "0", ")">>

salary_gt_50000 ==
  <<"(", "s", "a", "l", "a", "r", "y", " ", ">", " ", "5", "0", "0", "0", "0", ")">>

\* "(a > 1) AND (b > 2)"
two_groups ==
  <<"(", "a", " ", ">", " ", "1", ")", " ", "A", "N", "D", " ",
    "(", "b", " ", ">", " ", "2", ")">>

\* "(age\t>\n30)", "   ", "(age >" and "( name = 'New York' )"
age_gt_30_tabs == <<"(", "a", "g", "e", "\t", ">", "\n", "3", "0", ")">>

blank == <<" ", " ", " ">>

unclosed == <<"(", "a", "g", "e", " ", ">">>

quoted_with_space ==
  <<"(", " ", "n", "a", "m", "e", " ", "=", " ", "'", "N", "e", "w", " ",
    "Y", "o", "r", "k", "'", " ", ")">>

\* The context of the example usage.
SampleData ==
  (age :> IntVal(35)) @@ (department :> StrVal(Sales)) @@
  (salary :> IntVal(60000)) @@ (experience :> IntVal(3))

EmptyData == [k \in {} |-> NoValue]

Contexts ==
  { EmptyData, SampleData,
    (age :> IntVal(35)), (age :> IntVal(20)), (age :> BoolVal(TRUE)),
    (age :> StrVal(foo)), (Sales :> IntVal(1)), (foo :> StrVal(bar)) }

\* The derivations of the grammar
\*   expr := '(' expr operator expr ')' | INTEGER | QUOTED_STRING | IDENTIFIER
\* A leaf is [k, n, s]: the integer n, or the text s of the identifier or
\* between the quotes.
Leaves ==
  { [k |-> "IDENTIFIER", n |-> 0, s |-> age],
    [k |-> "INTEGER", n |-> 30, s |-> <<>>],
    [k |-> "QUOTED_STRING", n |-> 0, s |-> Sales] }

\* More leaves: an identifier spelled like an operator, the integer 0, an
\* empty quoted string and a quoted string of digits.
WideLeaves ==
  Leaves \cup
  { [k |-> "IDENTIFIER", n |-> 0, s |-> <<"A", "N", "D">>],
    [k |-> "INTEGER", n |-> 0, s |-> <<>>],
    [k |-> "QUOTED_STRING", n |-> 0, s |-> <<>>],
    [k |-> "QUOTED_STRING", n |-> 0, s |-> <<"3", "0">>] }

Group(l, o, r) == [k |-> "group", l |-> l, o |-> o, r |-> r]

\* The derivations with exactly n groups, operators from ops, leaves from
\* leaves.
RECURSIVE ExprsOf(_, _, _)
ExprsOf(n, ops, leaves) ==
  IF n = 0 THEN leaves
  ELSE UNION { { Group(l, o, r) : l \in ExprsOf(i, ops, leaves), o \in ops,
                                  r \in ExprsOf(n - 1 - i, ops, leaves) } :
               i \in 0..(n - 1) }

Exprs(n, ops, leaves) == UNION { ExprsOf(i, ops, leaves) : i \in 0..n }

\* str(n) for n >= 0
RECURSIVE Decimal(_)
Decimal(n) ==
  IF n < 10 THEN <<Digits[n + 1]>>
  ELSE Decimal(n \div 10) \o <<Digits[(n % 10) + 1]>>

\* The tokens of a derivation, left to right.
RECURSIVE TokensOf(_)
TokensOf(d) ==
  IF d.k = "group"
  THEN <<<<"(">>>> \o TokensOf(d.l) \o <<d.o>> \o TokensOf(d.r) \o <<<<")">>>>
  ELSE IF d.k = "INTEGER" THEN <<Decimal(d.n)>>
  ELSE IF d.k = "QUOTED_STRING" THEN <<(<<"'">> \o d.s \o <<"'">>)>>
  ELSE <<d.s>>

IsParen(token) == token = <<"(">> \/ token = <<")">>

\* The text of a token sequence: one space between two tokens, and in the
\* "compact" style nothing next to a parenthesis.
RECURSIVE JoinFrom(_, _, _)
JoinFrom(toks, i, style) ==
  IF i > Len(toks) THEN <<>>
  ELSE IF i = Len(toks) THEN toks[i]
  ELSE toks[i]
       \o (IF style = "compact" /\ (IsParen(toks[i]) \/ IsParen(toks[i + 1]))
           THEN <<>> ELSE <<" ">>)
       \o JoinFrom(toks, i + 1, style)

Join(toks, style) == JoinFrom(toks, 1, style)

Styles == {"spaced", "compact"}

\* Sequences over S of length at most n.
SeqsUpTo(S, n) == UNION { [1..i -> S] : i \in 0..n }

MaxOps == 2

MaxTrail == 2

MaxToks == 3

MaxRules == 3

\* The operators of the nested derivations, and of the flat ones.
NestedOps == {AND, <<">">>}

FlatOps == OPERATORS

\* Tokens that may follow a complete expression.
TrailTokens == {AND, <<"(">>, <<")">>, <<"@">>}

\* Tokens of the arbitrary token sequences.
AnyTokens == {<<"(">>, <<")">>, age, <<">">>, <<"1">>}

\* Rule strings of the lists handed to combine_rules.
ListStrings == {age_gt_30, salary_gt_50000, <<>>, age, unclosed}

Texts ==
  { rule1_string, rule2_string, age_gt_30, age_gt_30_dense, age_gt_30_tabs,
    salary_gt_50000, two_groups, blank, quoted_with_space }

RuleIds == {"rule1", "rule2"}

\* Nodes built by hand with the Node constructor.
Kids ==
  { None, Operand(IntVal(1)), Operand(StrVal(foo)), Operand(StrVal(age)),
    Node("operator", Operand(StrVal(age)), Operand(IntVal(30)), StrVal(<<">">>)),
    Node("operator", Operand(StrVal(foo)), Operand(StrVal(bar)), StrVal(AND)),
    Node("operator", Operand(IntVal(1)), Operand(IntVal(1)), StrVal(XOR)) }

Symbols ==
  { StrVal(XOR), StrVal(<<"a", "n", "d">>), StrVal(<<>>), StrVal(<<">", "=">>),
    IntVal(1), StrVal(AND), StrVal(OR), StrVal(<<">">>), StrVal(<<"<">>), StrVal(<<"=">>) }

HandBuilt ==
  { Node("operator", l, r, v) : l \in Kids, r \in Kids, v \in Symbols }
  \cup { Operand(StrVal(s)) : s \in {foo, age, Sales, first_name, <<>>} }

\* The rule strings an input stands for.
RulesOf(i) ==
  IF i.kind = "expr" THEN <<Join(TokensOf(i.d) \o i.trail, i.style)>>
  ELSE IF i.kind = "tokens" THEN <<Join(i.toks, "spaced")>>
  ELSE IF i.kind = "text" THEN <<i.text>>
  ELSE IF i.kind = "list" THEN i.list
  ELSE <<>>

(* --------------------------- the driving script ------------------------ *)

Init ==
  /\ \/ \E d \in Exprs(MaxOps, NestedOps, Leaves), st \in Styles :
          input = [kind |-> "expr", d |-> d, style |-> st, trail |-> <<>>]
     \/ \E d \in Exprs(1, FlatOps, WideLeaves), st \in Styles :
          input = [kind |-> "expr", d |-> d, style |-> st, trail |-> <<>>]
     \/ \E d \in Exprs(1, FlatOps, Leaves), t \in SeqsUpTo(TrailTokens, MaxTrail) :
          input = [kind |-> "expr", d |-> d, style |-> "spaced", trail |-> t]
     \/ \E t \in SeqsUpTo(AnyTokens, MaxToks) : input = [kind |-> "tokens", toks |-> t]
     \/ \E l \in SeqsUpTo(ListStrings, MaxRules) : input = [kind |-> "list", list |-> l]
     \/ \E s \in Texts : input = [kind |-> "text", text |-> s]
     \/ input = [kind |-> "node"]
  /\ rules = RulesOf(input)
  /\ data = EmptyData
  /\ tokens = <<>>
  /\ ast = None
  /\ err = NoError
  /\ result = NoValue
  /\ rules_db = [k \in {} |-> None]
  /\ saved_rule = None
  /\ pc = "start"

\* rule1_ast = rule_engine.create_rule(rule1_string)
CreateRule ==
  /\ pc = "start"
  /\ rules # <<>>
  /\ LET r == create_rule(rules[1])
     IN /\ ast' = r.node
        /\ tokens' = r.tokens
        /\ err' = r.err
  /\ pc' = "created"
  /\ UNCHANGED <<input, rules, data, result, rules_db, saved_rule>>

\* combined_ast = rule_engine.combine_rules([...])
CombineRules ==
  /\ pc = "start"
  /\ input.kind # "node"
  /\ LET r == combine_rules(rules)
     IN /\ ast' = r.node
        /\ tokens' = r.tokens
        /\ err' = r.err
  /\ pc' = "combined"
  /\ UNCHANGED <<input, rules, data, result, rules_db, saved_rule>>

\* Node(node_type=..., left=..., right=..., value=...) by the caller
NewNode ==
  /\ pc = "start"
  /\ input.kind = "node"
  /\ \E n \in HandBuilt : ast' = n
  /\ pc' = "built"
  /\ UNCHANGED <<input, rules, data, tokens, err, result, rules_db, saved_rule>>

\* is_eligible = rule_engine.evaluate_rule(combined_ast, data)
EvaluateRule ==
  /\ pc \in {"created", "combined", "built"}
  /\ err = NoError
  /\ \E context \in Contexts :
       LET r == evaluate_rule(ast, context)
       IN /\ data' = context
          /\ result' = r.val
          /\ err' = r.err
  /\ pc' = "evaluated"
  /\ UNCHANGED <<input, rules, tokens, ast, rules_db, saved_rule>>

\* rule_engine.save_rule('rule1', rule1_string, rule1_ast)
SaveRule ==
  /\ pc = "created"
  /\ err = NoError
  /\ \E rule_id \in RuleIds : rules_db' = save_rule(rules_db, rule_id, rules[1], ast)
  /\ pc' = "saved"
  /\ UNCHANGED <<input, rules, data, tokens, ast, err, result, saved_rule>>

\* saved_rule = rule_engine.get_rule('rule1')
GetRule ==
  /\ pc = "saved"
  /\ \E rule_id \in RuleIds : saved_rule' = get_rule(rules_db, rule_id)
  /\ pc' = "done"
  /\ UNCHANGED <<input, rules, data, tokens, ast, err, result, rules_db>>

Next == CreateRule \/ CombineRules \/ NewNode \/ EvaluateRule \/ SaveRule \/ GetRule

Spec == Init /\ [][Next]_vars

(* ------------------------------ properties ----------------------------- *)

\* The tree a derivation of the grammar denotes: one operator node per
\* group, one operand node per literal.
RECURSIVE TreeOf(_)
TreeOf(d) ==
  IF d.k = "group" THEN Node("operator", TreeOf(d.l), TreeOf(d.r), StrVal(d.o))
  ELSE IF d.k = "INTEGER" THEN Operand(IntVal(d.n))
  ELSE Operand(StrVal(d.s))

\* The input is a string derived from the grammar and nothing else.
FromGrammar == input.kind = "expr" /\ input.trail = <<>>

IsOperatorNode(n) == n # None /\ n.type = "operator"

Comparisons == {<<">">>, <<"<">>, <<"=">>}

\* a < b in code point order, said without recursion: the two agree on a
\* prefix, after which a ends first or holds the smaller character.
LexLess(a, b) ==
  \E k \in 0..Len(a) :
    /\ k <= Len(b)
    /\ \A i \in 1..k : a[i] = b[i]
    /\ \/ (k = Len(a) /\ k < Len(b))
       \/ (k < Len(a) /\ k < Len(b) /\ Ord(a[k + 1]) < Ord(b[k + 1]))

SameKind(l, r) == (IsNumber(l) /\ IsNumber(r)) \/ (l.t = "str" /\ r.t = "str")

Equal(l, r) ==
  IF IsNumber(l) /\ IsNumber(r) THEN l.n = r.n
  ELSE IF l.t = "str" /\ r.t = "str" THEN l.s = r.s
  ELSE FALSE

Greater(l, r) == IF IsNumber(l) THEN l.n > r.n ELSE LexLess(r.s, l.s)

\* The node is not None, every operator node under it has two children that
\* are such nodes, and every operand node has none.
RECURSIVE WellFormedNode(_)
WellFormedNode(n) ==
  /\ n # None
  /\ IF n.type = "operator"
     THEN WellFormedNode(n.left) /\ WellFormedNode(n.right)
     ELSE n.left = None /\ n.right = None

\* C1: rule1_string of the example usage, parsed by create_rule and evaluated
\* against the example's data, yields True. (The code raises "Invalid token: ="
\* while it parses the string.)
C1_EndToEndIsTrue ==
  (input.kind = "text" /\ input.text = rule1_string /\ pc \in {"created", "evaluated"})
    => /\ err = NoError
       /\ (pc = "evaluated" /\ data = SampleData) => result = BoolVal(TRUE)

\* C2: combine_rules is a left fold with AND: when it returns for n >= 2 rule
\* strings, the root is an operator node AND whose right child is the tree of
\* the last string and whose left child is the combination of the others;
\* it raises exactly when one of the strings does not parse; and combining
\* "(age > 30)" with "(salary > 50000)" gives the AND node built by hand.
C2_CombineIsLeftFoldWithAnd ==
  (pc = "combined") =>
    LET n == Len(rules)
    IN /\ (err = NoError) <=> (\A i \in 1..n : create_rule(rules[i]).err = NoError)
       /\ (err = NoError /\ n >= 2) =>
            /\ ast.type = "operator"
            /\ ast.value = StrVal(AND)
            /\ ast.right = create_rule(rules[n]).node
            /\ ast.left = (IF n = 2 THEN create_rule(rules[1]).node
                           ELSE combine_rules(SubSeq(rules, 1, n - 1)).node)
       /\ (rules = <<age_gt_30, salary_gt_50000>>) =>
            ast = Node("operator",
                       Node("operator", Operand(StrVal(age)), Operand(IntVal(30)),
                            StrVal(<<">">>)),
                       Node("operator", Operand(StrVal(salary)), Operand(IntVal(50000)),
                            StrVal(<<">">>)),
                       StrVal(AND))

C2_Witness ==
  /\ pc = "combined"
  /\ err = NoError
  /\ rules = <<age_gt_30, salary_gt_50000, age>>
  /\ ast.left.type = "operator"

C4_WhitespaceOptional ==
  (pc = "created" /\ input.kind = "text" /\ input.text = age_gt_30_dense)
    => (err = NoError /\ ast = create_rule(age_gt_30).node)

\* C4 amended: whitespace is optional next to a parenthesis only. A grammar
\* string written with nothing between a parenthesis and its neighbour parses
\* as the same string written with a space around every token does; and
\* "(age>30)", with nothing between operand and operator, is an invalid token.
C4_WhitespaceOptionalNextToParentheses ==
  /\ (pc = "created" /\ FromGrammar /\ input.style = "compact") =>
       LET spaced == create_rule(Join(TokensOf(input.d), "spaced"))
       IN /\ spaced.err = NoError
          /\ err = NoError
          /\ ast = spaced.node
          /\ tokens = spaced.tokens
  /\ (pc = "created" /\ input.kind = "text" /\ input.text = age_gt_30_dense) =>
       err = InvalidToken

C4_Witness ==
  /\ pc = "created"
  /\ FromGrammar
  /\ input.style = "compact"
  /\ input.d.k = "group"
  /\ rules[1] # Join(TokensOf(input.d), "spaced")
  /\ ast.type = "operator"

\* The evaluated node is a comparison whose two children evaluate.
ComparisonEvaluated ==
  /\ pc = "evaluated"
  /\ IsOperatorNode(ast)
  /\ ast.value.t = "str"
  /\ ast.value.s \in Comparisons
  /\ evaluate_rule(ast.left, data).err = NoError
  /\ evaluate_rule(ast.right, data).err = NoError

\* C5 as claimed: a comparison node returns a boolean whatever the types of
\* the two results.
C5_ComparisonAlwaysBoolean ==
  ComparisonEvaluated => (err = NoError /\ result.t = "bool")

\* C5 amended: when both children evaluate, '=' returns the equality of the
\* two results whatever their types (a str never equals a number), '>' and
\* '<' return the ordering of two numbers or of two strs, and raise a
\* TypeError for a str against a number; "(age > 30)" is True for age 35 and
\* False for age 20.
C5_ComparisonOfLikeTypes ==
  /\ ComparisonEvaluated =>
       LET l == evaluate_rule(ast.left, data).val
           r == evaluate_rule(ast.right, data).val
           o == ast.value.s
       IN IF o = <<"=">> THEN err = NoError /\ result = BoolVal(Equal(l, r))
          ELSE IF ~SameKind(l, r) THEN err = TypeError /\ result = NoValue
          ELSE /\ err = NoError
               /\ result = BoolVal(IF o = <<">">> THEN Greater(l, r) ELSE Greater(r, l))
  /\ (pc = "evaluated" /\ input.kind = "text" /\ input.text = age_gt_30) =>
       /\ (data = (age :> IntVal(35))) => (err = NoError /\ result = BoolVal(TRUE))
       /\ (data = (age :> IntVal(20))) => (err = NoError /\ result = BoolVal(FALSE))

C5_Witness ==
  /\ ComparisonEvaluated
  /\ input.kind = "text"
  /\ input.text = age_gt_30
  /\ data = (age :> IntVal(35))
  /\ result = BoolVal(TRUE)

\* The evaluated node is an operator node whose symbol the table lacks.
UnknownSymbolEvaluated ==
  /\ pc = "evaluated"
  /\ IsOperatorNode(ast)
  /\ ~(ast.value.t = "str" /\ ast.value.s \in OPERATORS)

\* C6 as claimed: such a node fails with the unknown-operator error whatever
\* its children and the context.
C6_UnknownOperatorError ==
  UnknownSymbolEvaluated => err = UnknownOperator

\* C6 amended: such a node never returns a value; it fails with the
\* unknown-operator error when both children evaluate, and with the error of
\* the first child that fails otherwise.
C6_UnknownOperatorNeverReturns ==
  UnknownSymbolEvaluated =>
    LET l == evaluate_rule(ast.left, data)
        r == evaluate_rule(ast.right, data)
    IN /\ err # NoError
       /\ result = NoValue
       /\ err = (IF l.err # NoError THEN l.err
                 ELSE IF r.err # NoError THEN r.err
                 ELSE UnknownOperator)

C6_Witness ==
  /\ UnknownSymbolEvaluated
  /\ ast.value = StrVal(XOR)
  /\ ast.left = Operand(StrVal(foo))
  /\ err = UnknownOperator

\* C7: an operand holding a bare identifier that is no key of the context
\* evaluates to the identifier itself and raises nothing, whether the operand
\* was parsed from an identifier token or built by hand.
C7_MissingIdentifierIsItself ==
  /\ (/\ pc = "evaluated"
      /\ ast # None
      /\ ast.type = "operand"
      /\ ast.value.t = "str"
      /\ ast.value.s \notin DOMAIN data)
       => (err = NoError /\ result = StrVal(ast.value.s))
  /\ (/\ pc = "evaluated"
      /\ input.kind = "expr"
      /\ input.d.k = "IDENTIFIER"
      /\ input.d.s \notin DOMAIN data)
       => (err = NoError /\ result = StrVal(input.d.s))

C7_Witness ==
  /\ pc = "evaluated"
  /\ input.kind = "node"
  /\ ast = Operand(StrVal(foo))
  /\ data = EmptyData
  /\ result = StrVal(foo)

\* C8: the operand parsed from a single-quoted token evaluates to the
\* unquoted string in every context, a context with that string as a key
\* included. (The code returns the context's value: 'Sales' against
\* {Sales: 1} is 1.)
C8_QuotedIsALiteral ==
  (pc = "evaluated" /\ input.kind = "expr" /\ input.d.k = "QUOTED_STRING")
    => (err = NoError /\ result = StrVal(input.d.s))

\* C9: every tree create_rule or combine_rules returns is strictly binary:
\* no operator node has a None child, no operand node has a child. (The code
\* returns an AND node with a None child when a combined string is empty.)
C9_StrictlyBinary ==
  (pc \in {"created", "combined"} /\ err = NoError /\ ast # None)
    => WellFormedNode(ast)

\* C10: for a complete expression followed by further tokens, create_rule
\* raises nothing, returns the tree of the expression and leaves exactly the
\* further tokens in the queue; "(a > 1) AND (b > 2)" gives the tree of
\* (a > 1).
C10_StopsAfterFirstExpression ==
  /\ (pc = "created" /\ input.kind = "expr" /\ input.trail # <<>>) =>
       /\ err = NoError
       /\ ast = TreeOf(input.d)
       /\ tokens = input.trail
  /\ (pc = "created" /\ input.kind = "text" /\ input.text = two_groups) =>
       /\ err = NoError
       /\ ast = Node("operator", Operand(StrVal(<<"a">>)), Operand(IntVal(1)),
                     StrVal(<<">">>))
       /\ tokens = <<AND, <<"(">>, <<"b">>, <<">">>, <<"2">>, <<")">>>>

C10_Witness ==
  /\ pc = "created"
  /\ input.kind = "expr"
  /\ input.d.k = "group"
  /\ Len(input.trail) = 2
  /\ tokens = input.trail
  /\ ast.type = "operator"

====
